---- MODULE Spec2Model ----
(***************************************************************************)
(* Model of src/firm_GDP.py: the ETL script that fetches a page, extracts  *)
(* the rows of its third tbody, converts the GDP strings to billions and   *)
(* writes them to a CSV file and a database table.                         *)
(*                                                                         *)
(* Text is a sequence of one-character strings.  The module is ASCII, so   *)
(* the em-dash U+2014 of the source is written "--" and the newline "\n"   *)
(* is written "NL"; each is one character of a text.                       *)
(***************************************************************************)
EXTENDS Integers, Sequences, FiniteSets, TLC

VARIABLES
    pc,           \* the statement the script is at
    df,           \* the module-level name df
    csv,          \* the file ./Countries_by_GDP.csv
    db,           \* the table Countries_by_GDP of World_Economies.db
    log,          \* the file ./etl_project_log.txt, one message per line
    conn,         \* whether sql_connection is open
    queryRet,     \* what run_query returned to the script
    runs,         \* how many times the script was started again
    gets,         \* history: calls of requests.get in this run
    trace,        \* history: the stages called in this run, in order
    failedAt,     \* history: the stage that raised in this run, or ""
    logMark,      \* history: the length of the log when this run began
    dbBefore,     \* history: the table as load_to_db found it
    inStatus, inDoc, outExtract,   \* one call of extract: input and result
    inDf, outTransform             \* one call of transform: input and result

pipeVars == <<pc, df, csv, db, log, conn, queryRet, runs, gets, trace,
              failedAt, logMark, dbBefore>>
extractVars == <<inStatus, inDoc, outExtract>>
transformVars == <<inDf, outTransform>>
vars == <<pipeVars, extractVars, transformVars>>

(***************************************************************************)
(* Binary64 arithmetic as float division, float multiplication and numpy's *)
(* rint compute it.  A significand is a bit sequence, most significant bit *)
(* first; long division and multiplication work on limbs of 15 bits.       *)
(***************************************************************************)

\* significand width of a Python float (IEEE binary64)
MantBits == 53

RECURSIVE NatToBits(_)
NatToBits(n) == IF n = 0 THEN <<>> ELSE Append(NatToBits(n \div 2), n % 2)

RECURSIVE BitsToNat(_)
BitsToNat(b) ==
    IF b = <<>> THEN 0
    ELSE 2 * BitsToNat(SubSeq(b, 1, Len(b) - 1)) + b[Len(b)]

RECURSIVE StripZeros(_)
StripZeros(b) ==
    IF b # <<>> /\ Head(b) = 0 THEN StripZeros(Tail(b)) ELSE b

Zeros(k) == [i \in 1..k |-> 0]

AnyOne(b) == \E i \in 1..Len(b) : b[i] = 1

LimbBase == 2^15

LimbToBits(x) == [i \in 1..15 |-> (x \div 2^(15 - i)) % 2]

RECURSIVE LimbsToBits(_)
LimbsToBits(l) ==
    IF l = <<>> THEN <<>> ELSE LimbToBits(Head(l)) \o LimbsToBits(Tail(l))

BitsToLimbs(b) ==
    LET k   == (Len(b) + 14) \div 15
        pad == Zeros(15 * k - Len(b)) \o b
    IN  [j \in 1..k |-> BitsToNat(SubSeq(pad, 15 * (j - 1) + 1, 15 * j))]

\* the first k limbs of the binary expansion of r / d, for 0 <= r < d
RECURSIVE FracLimbs(_, _, _)
FracLimbs(r, d, k) ==
    IF k = 0 THEN <<>>
    ELSE <<(r * LimbBase) \div d>> \o FracLimbs((r * LimbBase) % d, d, k - 1)

\* what is left of r / d after those k limbs
RECURSIVE FracRem(_, _, _)
FracRem(r, d, k) ==
    IF k = 0 THEN r ELSE FracRem((r * LimbBase) % d, d, k - 1)

\* the limb sequence l times the small natural k, plus carry
RECURSIVE MulLimbs(_, _, _)
MulLimbs(l, k, carry) ==
    IF l = <<>> THEN (IF carry = 0 THEN <<>> ELSE <<carry>>)
    ELSE LET t == l[Len(l)] * k + carry
         IN  Append(MulLimbs(SubSeq(l, 1, Len(l) - 1), k, t \div LimbBase),
                    t % LimbBase)

\* b + 1
IncBits(b) ==
    IF \A i \in 1..Len(b) : b[i] = 1 THEN <<1>> \o Zeros(Len(b))
    ELSE LET k == CHOOSE i \in 1..Len(b) :
                     b[i] = 0 /\ \A j \in (i + 1)..Len(b) : b[j] = 1
         IN  [i \in 1..Len(b) |-> IF i < k THEN b[i] ELSE IF i = k THEN 1 ELSE 0]

\* round-to-nearest-even of the natural b (no leading zero) plus a
\* fraction that is non-zero iff sticky, to MantBits significant bits:
\* the value is m * 2^e
RoundMant(b, sticky) ==
    IF Len(b) <= MantBits THEN [m |-> b, e |-> 0]
    ELSE LET kept == SubSeq(b, 1, MantBits)
             rest == SubSeq(b, MantBits + 1, Len(b))
             more == AnyOne(Tail(rest)) \/ sticky
             up   == Head(rest) = 1 /\ (more \/ kept[MantBits] = 1)
             m    == IF up THEN IncBits(kept) ELSE kept
         IN  IF Len(m) > MantBits
             THEN [m |-> SubSeq(m, 1, MantBits), e |-> Len(rest) + 1]
             ELSE [m |-> m, e |-> Len(rest)]

\* float(n) / d for naturals n > 0, d: the binary64 m * 2^e nearest n / d
FloatDiv(n, d) ==
    LET frac == LimbsToBits(FracLimbs(n % d, d, 6))
        rm   == RoundMant(StripZeros(NatToBits(n \div d) \o frac),
                          FracRem(n % d, d, 6) # 0)
    IN  [m |-> rm.m, e |-> rm.e - Len(frac)]

\* x * k for a binary64 x and a small natural k
FloatMul(x, k) ==
    LET prod == LimbsToBits(MulLimbs(BitsToLimbs(x.m), k, 0))
        rm   == RoundMant(StripZeros(prod), FALSE)
    IN  [m |-> rm.m, e |-> x.e + rm.e]

\* numpy.rint: the nearest integer, ties to the even one
Rint(x) ==
    IF x.e >= 0 THEN BitsToNat(x.m \o Zeros(x.e))
    ELSE LET fl == -x.e
             ip == IF Len(x.m) > fl THEN SubSeq(x.m, 1, Len(x.m) - fl) ELSE <<>>
             fr == IF Len(x.m) > fl
                   THEN SubSeq(x.m, Len(x.m) - fl + 1, Len(x.m))
                   ELSE Zeros(fl - Len(x.m)) \o x.m
             i  == BitsToNat(ip)
             up == Head(fr) = 1 /\ (AnyOne(Tail(fr)) \/ i % 2 = 1)
         IN  IF up THEN i + 1 ELSE i

\* variant: decimal rounding, ties away from zero
RoundHalfUp(n) == (n + 5) \div 10

\* np.round(n / 1000, 2) = rint((n / 1000) * 100) / 100 for a natural n,
\* given as the integer h of hundredths: the result is the binary64
\* nearest h / 100
NpRound2(n) ==
    IF n = 0 THEN 0 ELSE Rint(FloatMul(FloatDiv(n, 1000), 100))

(***************************************************************************)
(* The parsed page.  A node is a text node (name "#text", its text in s)   *)
(* or an element (its tag in name, its children in contents).  A cell is   *)
(* the child list of a td, a row the list of the td cells of a tr, a tbody *)
(* the list of its rows and a document the list of its tbody elements, all *)
(* in document order.                                                      *)
(***************************************************************************)

Txt(t) == [name |-> "#text", s |-> t, contents |-> <<>>]
El(n, c) == [name |-> n, s |-> <<>>, contents |-> c]

\* what find() returns when nothing matches
None == [name |-> "#none", s |-> <<>>, contents |-> <<>>]

\* the missing-data marker the marker of line 32
MARKER == <<"--">>

\* table_attribs, line 73
table_attribs == <<"Country", "GDP_USD_millions">>

\* no DataFrame: the call raised
NoDf == [columns |-> <<>>, rows |-> <<>>]

\* tag.find(name): the first descendant element of that name, in
\* document order
RECURSIVE Find(_, _)
Find(nodes, n) ==
    IF nodes = <<>> THEN None
    ELSE IF Head(nodes).name = n THEN Head(nodes)
    ELSE LET r == Find(Head(nodes).contents, n)
         IN  IF r # None THEN r ELSE Find(Tail(nodes), n)

\* the text of a node list, as get_text() gives it
RECURSIVE TextOf(_)
TextOf(nodes) ==
    IF nodes = <<>> THEN <<>>
    ELSE (IF Head(nodes).name = "#text" THEN Head(nodes).s
          ELSE TextOf(Head(nodes).contents)) \o TextOf(Tail(nodes))

HasMarker(t) == \E i \in 1..Len(t) : t[i] = MARKER[1]

\* variant: the check as a substring test on the cell's text
MarkerInText(cell) == HasMarker(TextOf(cell))

\* the marker in tag: Tag.__contains__ is membership in tag.contents, so the
\* marker must equal one child, and only a text node equals a string
MarkerIn(cell) ==
    \E i \in 1..Len(cell) : cell[i].name = "#text" /\ cell[i].s = MARKER

\* variant: every 2xx status is a success
FetchFailsNon2xx(status) == status \notin 200..299

\* response.status_code != 200, line 17
FetchFails(status) == status # 200

\* variant: tables[1]
TableIndexSecond == 3 - 1

\* tables[2], line 28, as a 1-based index
TableIndex == 3

\* variant: the GDP is read from the second cell
RowStepWrongCell(col) ==
    IF Len(col) = 0 THEN [act |-> "skip", rec |-> <<>>]
    ELSE IF Find(col[1], "a") = None THEN [act |-> "skip", rec |-> <<>>]
    ELSE IF Len(col) < 3 THEN [act |-> "raise", rec |-> <<>>]
    ELSE IF \E i \in 1..Len(col[3]) : col[3][i] = Txt(MARKER)
         THEN [act |-> "skip", rec |-> <<>>]
    ELSE IF Find(col[1], "a").contents = <<>> \/ col[3] = <<>>
         THEN [act |-> "raise", rec |-> <<>>]
    ELSE [act |-> "add",
          rec |-> <<Find(col[1], "a").contents[1], col[2][1]>>]

\* variant: a row with fewer than three cells is skipped
RowStepSkipShort(col) ==
    IF Len(col) < 3 THEN [act |-> "skip", rec |-> <<>>]
    ELSE IF Find(col[1], "a") = None THEN [act |-> "skip", rec |-> <<>>]
    ELSE IF \E i \in 1..Len(col[3]) : col[3][i] = Txt(MARKER)
         THEN [act |-> "skip", rec |-> <<>>]
    ELSE IF Find(col[1], "a").contents = <<>> \/ col[3] = <<>>
         THEN [act |-> "raise", rec |-> <<>>]
    ELSE [act |-> "add",
          rec |-> <<Find(col[1], "a").contents[1], col[3][1]>>]

\* lines 30-38 for one row: "skip" when the row adds nothing, "raise" when
\* an index is out of range, "add" with the record otherwise
RowStep(col) ==
    IF Len(col) = 0 THEN [act |-> "skip", rec |-> <<>>]
    ELSE IF Find(col[1], "a") = None THEN [act |-> "skip", rec |-> <<>>]
    ELSE IF Len(col) < 3 THEN [act |-> "raise", rec |-> <<>>]
    ELSE IF MarkerIn(col[3]) THEN [act |-> "skip", rec |-> <<>>]
    ELSE IF Find(col[1], "a").contents = <<>> \/ col[3] = <<>>
         THEN [act |-> "raise", rec |-> <<>>]
    ELSE [act |-> "add",
          rec |-> <<Find(col[1], "a").contents[1], col[3][1]>>]

\* the loop of lines 29-38 from row i on; acc holds the records so far and
\* from the index of the row each record came from
RECURSIVE RowLoop(_, _, _, _)
RowLoop(rows, i, acc, from) ==
    IF i > Len(rows) THEN [ok |-> TRUE, rows |-> acc, from |-> from]
    ELSE LET st == RowStep(rows[i])
         IN  IF st.act = "raise" THEN [ok |-> FALSE, rows |-> <<>>, from |-> <<>>]
             ELSE IF st.act = "add"
                  THEN RowLoop(rows, i + 1, Append(acc, st.rec), Append(from, i))
             ELSE RowLoop(rows, i + 1, acc, from)

Failure(kind, code, g) ==
    [ok |-> FALSE, err |-> kind, code |-> code, df |-> NoDf,
     tbody |-> 0, from |-> <<>>, gets |-> g]

\* extract(url, table_attribs) when the GET is answered with the given
\* status and a body that parses to doc.  gets counts the calls of
\* requests.get; tbody and from record where the records were read from.
Extract(status, doc) ==
    IF FetchFails(status) THEN Failure("Exception", status, 1)
    ELSE IF Len(doc) < TableIndex THEN Failure("IndexError", 0, 1)
    ELSE LET r == RowLoop(doc[TableIndex], 1, <<>>, <<>>)
         IN  IF ~r.ok THEN Failure("IndexError", 0, 1)
             ELSE [ok |-> TRUE, err |-> "", code |-> 0,
                   df |-> [columns |-> table_attribs, rows |-> r.rows],
                   tbody |-> TableIndex, from |-> r.from, gets |-> 1]

(***************************************************************************)
(* transform                                                               *)
(***************************************************************************)

Digits == <<"0", "1", "2", "3", "4", "5", "6", "7", "8", "9">>

IsDigit(c) == \E d \in 1..10 : Digits[d] = c

DigitVal(c) == (CHOOSE d \in 1..10 : Digits[d] = c) - 1

IsSpace(c) == c = "NL" \/ c = " "

\* "".join(x.split(',')), line 44
StripCommas(t) == SelectSeq(t, LAMBDA c : c # ",")

\* str.strip(), which float() applies to its argument
RECURSIVE Strip(_)
Strip(t) ==
    IF t # <<>> /\ IsSpace(Head(t)) THEN Strip(Tail(t))
    ELSE IF t # <<>> /\ IsSpace(t[Len(t)]) THEN Strip(SubSeq(t, 1, Len(t) - 1))
    ELSE t

RECURSIVE DigitsVal(_)
DigitsVal(t) ==
    IF t = <<>> THEN 0
    ELSE 10 * DigitsVal(SubSeq(t, 1, Len(t) - 1)) + DigitVal(t[Len(t)])

\* float(t) over the characters of the model (digits, comma, marker,
\* white space): a non-empty digit string between white space, or ValueError
FloatOk(t) ==
    Strip(t) # <<>> /\ \A i \in 1..Len(Strip(t)) : IsDigit(Strip(t)[i])

FloatVal(t) == DigitsVal(Strip(t))

\* a float column value, as its hundredths
Float(h) == [name |-> "#float", hundredths |-> h]

\* line 44 succeeds on x: x is a string and float() parses it
Parses(x) == x.name = "#text" /\ FloatOk(StripCommas(x.s))

\* lines 44-45 for one value
Convert(x) == Float(NpRound2(FloatVal(StripCommas(x.s))))

\* the column after lines 46-47: df["GDP_USD_millions"] = GDP_list
Assigned(d) ==
    [columns |-> d.columns,
     rows |-> [i \in 1..Len(d.rows) |-> <<d.rows[i][1], Convert(d.rows[i][2])>>]]

\* df.rename(columns={"GDP_USD_millions": "GDP_USD_billions"}): a new frame
Renamed(d) ==
    [columns |-> [i \in 1..Len(d.columns) |->
                    IF d.columns[i] = "GDP_USD_millions"
                    THEN "GDP_USD_billions" ELSE d.columns[i]],
     rows |-> d.rows]

\* variant: transform works on a copy
ArgUntouched(d) == d

\* the frame object passed to transform, as it is when transform returns
ArgAfter(d) == Assigned(d)

\* transform(d): ret is the frame returned, arg the frame object that was
\* passed in, as the call leaves it
Transform(d) ==
    IF \E i \in 1..Len(d.rows) : ~Parses(d.rows[i][2])
    THEN [ok |-> FALSE, err |-> "ValueError", ret |-> NoDf, arg |-> d]
    ELSE [ok |-> TRUE, err |-> "", ret |-> Renamed(Assigned(d)),
          arg |-> ArgAfter(d)]

(***************************************************************************)
(* The sinks and the query                                                 *)
(***************************************************************************)

\* df.to_csv(csv_path, index=False): the header and one line per record
CsvWrite(d) == d

\* variant: if_exists='append'
DbAppend(table, d) ==
    [columns |-> d.columns, rows |-> table.rows \o d.rows]

\* df.to_sql(table_name, conn, if_exists='replace', index=False)
DbWrite(table, d) == d

\* SELECT * FROM Countries_by_GDP WHERE GDP_USD_billions >= 100
QueryOutput(table) ==
    [columns |-> table.columns,
     rows |-> SelectSeq(table.rows, LAMBDA r : r[2].hundredths >= 100 * 100)]

\* run_query binds pd.read_sql's result to a local name and ends without
\* a return statement: the call evaluates to None, written NoDf
RunQueryReturn(table) == NoDf

\* variant: the exception is caught and the script goes on
AfterStageCaught(ok, next) == IF ok THEN next ELSE "complete"

\* an unhandled exception ends the script
AfterStage(ok, next) == IF ok THEN next ELSE "crashed"

StageOrder == <<"extract", "transform", "csv", "connect", "db", "query">>

(***************************************************************************)
(* Inputs                                                                  *)
(***************************************************************************)

\* rows of a tbody, at most
MaxRows == 2
\* tbody elements of a document, at most
MaxTables == 3
\* rows of the selected tbody in a response to the whole script, at most
MaxPipeRows == 1
\* times the script is started again
MaxRestarts == 1
\* records of a frame passed to transform, at most
MaxRecs == 2

Statuses == {200, 204, 404, 500}

SeqsUpTo(S, n) == UNION {[1..k -> S] : k \in 0..n}

T12345 == <<"1", "2", ",", "3", "4", "5">>
T1015 == <<"1", ",", "0", "1", "5">>
T2675 == <<"2", ",", "6", "7", "5">>
T35 == <<"3", "5">>
T100000 == <<"1", "0", "0", ",", "0", "0", "0">>
T99995 == <<"9", "9", ",", "9", "9", "5">>
TBig == <<"2", "6", ",", "8", "5", "4", ",", "5", "9", "9">>
TMarkerNL == <<"--", "NL">>
T12345NL == <<"1", "2", ",", "3", "4", "5", "NL">>

LinkX == <<El("a", <<Txt(<<"X">>)>>)>>
LinkY == <<El("span", <<El("img", <<>>)>>), El("a", <<Txt(<<"Y">>)>>)>>
LinkZ == <<El("a", <<Txt(<<"Z">>)>>)>>
LinkD == <<El("a", <<Txt(<<"D">>)>>)>>
NoLink == <<Txt(<<"W">>)>>
EmptyLink == <<El("a", <<>>)>>
Mid == <<Txt(<<"s">>)>>

GVal == <<Txt(T12345)>>
GBig == <<Txt(T100000)>>
GMissing == <<Txt(MARKER)>>
GMarkerNL == <<Txt(TMarkerNL)>>
GFoot == <<Txt(T1015), El("sup", <<Txt(<<"n">>)>>)>>
GLateMarker == <<Txt(T35), El("br", <<>>), Txt(MARKER)>>
GEmpty == <<>>

RowKinds ==
    { <<LinkX, Mid, GVal>>, <<LinkY, Mid, GFoot>>, <<LinkZ, Mid, GBig, Mid>>,
      <<LinkX, Mid, GMissing>>, <<LinkY, Mid, GMarkerNL>>,
      <<LinkX, Mid, GLateMarker>>, <<NoLink, Mid, GVal>>,
      <<NoLink, Mid, GMissing>>, <<>>, <<NoLink>>, <<LinkX>>, <<LinkY, Mid>>,
      <<EmptyLink, Mid, GVal>>, <<LinkX, Mid, GEmpty>> }

\* the tbody elements that are not the third one
Decoys == { <<>>, << <<LinkD, Mid, GBig>> >> }

\* documents of up to MaxTables tbody elements; the third one, when there
\* is one, has up to MaxRows rows of any kind
Docs ==
    UNION { IF k < 3 THEN [1..k -> Decoys]
            ELSE { [i \in 1..k |-> IF i = 3 THEN b ELSE f[i]] :
                     f \in [1..k -> Decoys], b \in SeqsUpTo(RowKinds, MaxRows) } :
            k \in 0..MaxTables }

PipeRowKinds ==
    { <<LinkX, Mid, GVal>>, <<LinkZ, Mid, GBig, Mid>>,
      <<LinkY, Mid, GMarkerNL>>, <<LinkX>> }

PipeDocs ==
    { << <<>>, <<>> >> } \cup
    { << <<>>, << <<LinkD, Mid, GBig>> >>, b >> :
        b \in SeqsUpTo(PipeRowKinds, MaxPipeRows) }

RawTexts == {T12345, T1015, T2675, T35, T100000, T99995, TBig, TMarkerNL,
             T12345NL, <<"0">>}

Frames ==
    { [columns |-> table_attribs, rows |-> r] :
        r \in SeqsUpTo({ <<Txt(<<"X">>), Txt(t)>> : t \in RawTexts }, MaxRecs) }

\* what the table may hold before the first run
OldTables ==
    { NoDf,
      [columns |-> <<"Country", "GDP_USD_billions">>,
       rows |-> << <<Txt(<<"Old">>), Float(5)>> >>] }

Pending ==
    [ok |-> FALSE, err |-> "pending", code |-> 0, df |-> NoDf,
     tbody |-> 0, from |-> <<>>, gets |-> 0]

PendingT == [ok |-> FALSE, err |-> "pending", ret |-> NoDf, arg |-> NoDf]

(***************************************************************************)
(* The script, lines 79-101: one action per stage and its log entry        *)
(***************************************************************************)

NoCalls == /\ inStatus = 200 /\ inDoc = <<>> /\ outExtract = Pending
           /\ inDf = NoDf /\ outTransform = PendingT

Init ==
    /\ pc = "begin" /\ df = NoDf /\ csv = NoDf /\ db \in OldTables
    /\ log = <<>> /\ conn = FALSE /\ queryRet = NoDf /\ runs = 0
    /\ gets = 0 /\ trace = <<>> /\ failedAt = "" /\ logMark = 0
    /\ dbBefore = NoDf
    /\ NoCalls

Calls == UNCHANGED <<extractVars, transformVars>>

Log(msg) == log' = Append(log, msg)

Raise(stage) == /\ pc' = AfterStage(FALSE, "")
                /\ failedAt' = stage

\* line 79
Begin ==
    /\ pc = "begin"
    /\ Log("Preliminaries complete. Initiating ETL process")
    /\ pc' = "extract"
    /\ UNCHANGED <<df, csv, db, conn, queryRet, runs, gets, trace, failedAt,
                   logMark, dbBefore>>
    /\ Calls

\* lines 81-82
ExtractStage ==
    /\ pc = "extract"
    /\ trace' = Append(trace, "extract")
    /\ \E status \in Statuses, doc \in PipeDocs :
         LET r == Extract(status, doc)
         IN  /\ gets' = gets + r.gets
             /\ \/ /\ r.ok
                   /\ df' = r.df
                   /\ Log("Data extraction complete. Initiating Transformation process")
                   /\ pc' = AfterStage(TRUE, "transform")
                   /\ UNCHANGED failedAt
                \/ /\ ~r.ok
                   /\ Raise("extract")
                   /\ UNCHANGED <<df, log>>
    /\ UNCHANGED <<csv, db, conn, queryRet, runs, logMark, dbBefore>>
    /\ Calls

\* lines 84-85
TransformStage ==
    /\ pc = "transform"
    /\ trace' = Append(trace, "transform")
    /\ LET r == Transform(df)
       IN  \/ /\ r.ok
              /\ df' = r.ret
              /\ Log("Data transformation complete. Initiating loading process")
              /\ pc' = AfterStage(TRUE, "csv")
              /\ UNCHANGED failedAt
           \/ /\ ~r.ok
              /\ Raise("transform")
              /\ UNCHANGED <<df, log>>
    /\ UNCHANGED <<csv, db, conn, queryRet, runs, gets, logMark, dbBefore>>
    /\ Calls

\* lines 87-88; a failed write leaves the file as it was or truncated
CsvStage ==
    /\ pc = "csv"
    /\ trace' = Append(trace, "csv")
    /\ \/ /\ csv' = CsvWrite(df)
          /\ Log("Data saved to CSV file")
          /\ pc' = AfterStage(TRUE, "connect")
          /\ UNCHANGED failedAt
       \/ /\ csv' \in {csv, NoDf}
          /\ Raise("csv")
          /\ UNCHANGED log
    /\ UNCHANGED <<df, db, conn, queryRet, runs, gets, logMark, dbBefore>>
    /\ Calls

\* lines 90-91
ConnectStage ==
    /\ pc = "connect"
    /\ trace' = Append(trace, "connect")
    /\ \/ /\ conn' = TRUE
          /\ Log("SQL Connection initiated.")
          /\ pc' = AfterStage(TRUE, "db")
          /\ UNCHANGED failedAt
       \/ /\ Raise("connect")
          /\ UNCHANGED <<conn, log>>
    /\ UNCHANGED <<df, csv, db, queryRet, runs, gets, logMark, dbBefore>>
    /\ Calls

\* lines 93-94; a failed write leaves the table as it was or dropped
DbStage ==
    /\ pc = "db"
    /\ trace' = Append(trace, "db")
    /\ dbBefore' = db
    /\ \/ /\ db' = DbWrite(db, df)
          /\ Log("Data loaded to Database as table. Running the query")
          /\ pc' = AfterStage(TRUE, "query")
          /\ UNCHANGED <<failedAt, conn>>
       \/ /\ db' \in {db, NoDf}
          /\ Raise("db")
          /\ conn' = FALSE
          /\ UNCHANGED log
    /\ UNCHANGED <<df, csv, queryRet, runs, gets, logMark>>
    /\ Calls

\* lines 96-97
QueryStage ==
    /\ pc = "query"
    /\ trace' = Append(trace, "query")
    /\ \/ /\ queryRet' = RunQueryReturn(db)
          /\ pc' = AfterStage(TRUE, "complete")
          /\ UNCHANGED <<failedAt, conn>>
       \/ /\ Raise("query")
          /\ conn' = FALSE
          /\ UNCHANGED queryRet
    /\ UNCHANGED <<df, csv, db, log, runs, gets, logMark, dbBefore>>
    /\ Calls

\* lines 99-101
Complete ==
    /\ pc = "complete"
    /\ Log("Process Complete.")
    /\ conn' = FALSE
    /\ pc' = "done"
    /\ UNCHANGED <<df, csv, db, queryRet, runs, gets, trace, failedAt,
                   logMark, dbBefore>>
    /\ Calls

\* the script is started again: the files and the table are as the last
\* run left them, everything in memory is new
Restart ==
    /\ pc \in {"done", "crashed"}
    /\ runs < MaxRestarts
    /\ runs' = runs + 1
    /\ pc' = "begin" /\ df' = NoDf /\ conn' = FALSE /\ queryRet' = NoDf
    /\ gets' = 0 /\ trace' = <<>> /\ failedAt' = "" /\ logMark' = Len(log)
    /\ dbBefore' = NoDf
    /\ UNCHANGED <<csv, db, log>>
    /\ Calls

Next ==
    \/ Begin \/ ExtractStage \/ TransformStage \/ CsvStage \/ ConnectStage
    \/ DbStage \/ QueryStage \/ Complete \/ Restart

Spec == Init /\ [][Next]_vars

(***************************************************************************)
(* One call of extract on any response                                     *)
(***************************************************************************)

Idle ==
    /\ pc = "idle" /\ df = NoDf /\ csv = NoDf /\ db = NoDf /\ log = <<>>
    /\ conn = FALSE /\ queryRet = NoDf /\ runs = 0 /\ gets = 0
    /\ trace = <<>> /\ failedAt = "" /\ logMark = 0 /\ dbBefore = NoDf

InitExtract ==
    /\ Idle
    /\ inStatus \in Statuses /\ inDoc \in Docs /\ outExtract = Pending
    /\ inDf = NoDf /\ outTransform = PendingT

ExtractCall ==
    /\ outExtract = Pending
    /\ outExtract' = Extract(inStatus, inDoc)
    /\ UNCHANGED <<pipeVars, inStatus, inDoc, transformVars>>

SpecExtract == InitExtract /\ [][ExtractCall]_vars

(***************************************************************************)
(* One call of transform on any frame                                      *)
(***************************************************************************)

InitTransform ==
    /\ Idle
    /\ inStatus = 200 /\ inDoc = <<>> /\ outExtract = Pending
    /\ inDf \in Frames /\ outTransform = PendingT

TransformCall ==
    /\ outTransform = PendingT
    /\ outTransform' = Transform(inDf)
    /\ UNCHANGED <<pipeVars, extractVars, inDf>>

SpecTransform == InitTransform /\ [][TransformCall]_vars

(***************************************************************************)
(* Properties                                                              *)
(***************************************************************************)

ExDone == outExtract # Pending
TrDone == outTransform # PendingT

\* the rows extract reads, when the document has a third tbody
SelRows == inDoc[3]

Range(f) == {f[i] : i \in 1..Len(f)}

Increasing(f) == \A i, j \in 1..Len(f) : i < j => f[i] < f[j]

HasLink(cell) == Find(cell, "a") # None

MarkerChild(cell) == \E j \in 1..Len(cell) : cell[j] = Txt(MARKER)

\* a row extract cannot read: it has a link in its first cell and either no
\* third cell or, without a marker child, an empty link or an empty third cell
Unreadable(row) ==
    /\ Len(row) >= 1 /\ HasLink(row[1])
    /\ \/ Len(row) < 3
       \/ /\ ~MarkerChild(row[3])
          /\ (Find(row[1], "a").contents = <<>> \/ row[3] = <<>>)

C2_Original ==
    (ExDone /\ outExtract.ok) =>
        \A k \in 1..Len(outExtract.from) :
            ~HasMarker(TextOf(SelRows[outExtract.from[k]][3]))

\* C2 amended: the check is membership among the child nodes of the third
\* cell: a row with a link in its first cell is left out exactly when one
\* child of its third cell is a text node equal to the marker; a third
\* cell whose text only contains the marker among other characters is kept.
C2_Amended ==
    (ExDone /\ outExtract.ok) =>
        \A i \in 1..Len(SelRows) :
            (Len(SelRows[i]) >= 3 /\ HasLink(SelRows[i][1])) =>
                (i \in Range(outExtract.from) <=>
                    ~\E j \in 1..Len(SelRows[i][3]) :
                        /\ SelRows[i][3][j].name = "#text"
                        /\ SelRows[i][3][j].s = <<"--">>)

\* a row whose third cell is the marker followed by a newline was kept,
\* and a row whose marker is a later child of the third cell was left out
C2_Witness ==
    /\ ExDone /\ outExtract.ok
    /\ \E k \in 1..Len(outExtract.from) :
         outExtract.df.rows[k][2].s = <<"--", "NL">>
    /\ \E i \in 1..Len(SelRows) :
         /\ i \notin Range(outExtract.from)
         /\ Len(SelRows[i]) >= 3 /\ HasLink(SelRows[i][1])
         /\ Len(SelRows[i][3]) > 1
         /\ SelRows[i][3][1].s # <<"--">>

\* C3: extract reads its rows from the third tbody in document order, and
\* with fewer than three tbody elements it raises and returns no frame.
C3_ThirdTbody ==
    (ExDone /\ inStatus = 200) =>
        /\ Len(inDoc) < 3 =>
             /\ ~outExtract.ok /\ outExtract.err = "IndexError"
             /\ outExtract.df = NoDf
        /\ outExtract.ok =>
             /\ Len(inDoc) >= 3 /\ outExtract.tbody = 3
             /\ \A k \in 1..Len(outExtract.from) :
                  /\ outExtract.from[k] \in 1..Len(inDoc[3])
                  /\ outExtract.df.rows[k][2] = inDoc[3][outExtract.from[k]][3][1]

\* two tbody elements, one of them with a row extract would accept: the
\* call raised
C3_Witness ==
    /\ ExDone /\ inStatus = 200 /\ Len(inDoc) = 2
    /\ inDoc[2] # <<>>
    /\ ~outExtract.ok /\ outExtract.df = NoDf

\* C4 as stated: one GET, and the call fails with the status code exactly
\* when the status is not 2xx.
C4_Original ==
    ExDone =>
        /\ outExtract.gets = 1
        /\ (outExtract.err = "Exception" /\ outExtract.code = inStatus)
               <=> inStatus \notin 200..299

\* C4 amended: one GET, no retry; the call fails with an error carrying
\* the status code exactly when the status is not 200, so a 2xx status
\* other than 200 fails too, and only for 200 is the body parsed.
C4_Amended ==
    ExDone =>
        /\ outExtract.gets = 1
        /\ (outExtract.err = "Exception" /\ outExtract.code = inStatus)
               <=> inStatus # 200
        /\ inStatus # 200 => ~outExtract.ok /\ outExtract.df = NoDf
        /\ (inStatus = 200 /\ Len(inDoc) >= 3
              /\ ~\E i \in 1..Len(inDoc[3]) : Unreadable(inDoc[3][i]))
               => outExtract.ok

\* a 2xx status other than 200 made the call fail, on a document it reads
\* when the status is 200
C4_Witness ==
    /\ ExDone /\ inStatus \in 201..299
    /\ outExtract.err = "Exception" /\ outExtract.code = inStatus
    /\ Len(inDoc) >= 3 /\ inDoc[3] # <<>>
    /\ ~\E i \in 1..Len(inDoc[3]) : Unreadable(inDoc[3][i])

\* C10: a row of the third tbody with one or two data cells and a link in
\* its first cell makes extract raise: no frame is returned, whatever rows
\* came before.
C10_ShortRowRaises ==
    (ExDone /\ inStatus = 200 /\ Len(inDoc) >= 3
       /\ \E i \in 1..Len(inDoc[3]) :
            /\ Len(inDoc[3][i]) \in 1..2
            /\ HasLink(inDoc[3][i][1]))
    => /\ ~outExtract.ok /\ outExtract.err = "IndexError"
       /\ outExtract.df = NoDf /\ outExtract.from = <<>>

\* the short row comes after a row that extract accepts
C10_Witness ==
    /\ ExDone /\ inStatus = 200 /\ Len(inDoc) >= 3 /\ Len(inDoc[3]) = 2
    /\ Len(inDoc[3][1]) >= 3 /\ HasLink(inDoc[3][1][1])
    /\ ~MarkerChild(inDoc[3][1][3]) /\ ~Unreadable(inDoc[3][1])
    /\ Len(inDoc[3][2]) \in 1..2 /\ HasLink(inDoc[3][2][1])
    /\ ~outExtract.ok

\* the millions a GDP string stands for
Millions(x) == FloatVal(StripCommas(x.s))

HalfEven(n) ==
    IF n % 10 = 5 THEN (IF (n \div 10) % 2 = 0 THEN n \div 10 ELSE n \div 10 + 1)
    ELSE (n + 5) \div 10

SameShape ==
    /\ Len(outTransform.ret.rows) = Len(inDf.rows)
    /\ outTransform.ret.columns = <<"Country", "GDP_USD_billions">>
    /\ \A i \in 1..Len(inDf.rows) :
         outTransform.ret.rows[i][1] = inDf.rows[i][1]

\* C5 as stated: same Country, length and order; GDPBillions the millions
\* over 1000 rounded to the nearest hundredth with ties resolved by one
\* rule; "12,345" gives 12.35.
C5_Original ==
    (TrDone /\ outTransform.ok) =>
        /\ SameShape
        /\ \/ \A i \in 1..Len(inDf.rows) :
                outTransform.ret.rows[i][2] =
                    Float((Millions(inDf.rows[i][2]) + 5) \div 10)
           \/ \A i \in 1..Len(inDf.rows) :
                outTransform.ret.rows[i][2] =
                    Float(HalfEven(Millions(inDf.rows[i][2])))
        /\ \A i \in 1..Len(inDf.rows) :
             inDf.rows[i][2].s = T12345 =>
                 outTransform.ret.rows[i][2] = Float(1235)

\* C5 amended: same Country, length and order; GDPBillions is a hundredth
\* nearest to the millions over 1000, and on an exact tie either of the
\* two nearest, as binary floating point decides: "12,345" gives 12.34,
\* "2,675" 2.68, "1,015" 1.01 and "35" 0.04.
C5_Amended ==
    (TrDone /\ outTransform.ok) =>
        /\ SameShape
        /\ \A i \in 1..Len(inDf.rows) :
             LET n == Millions(inDf.rows[i][2])
                 v == outTransform.ret.rows[i][2]
             IN  /\ v.name = "#float"
                 /\ 10 * v.hundredths - n \in -5..5
                 /\ inDf.rows[i][2].s = T12345 => v.hundredths = 1234
                 /\ inDf.rows[i][2].s = T2675 => v.hundredths = 268
                 /\ inDf.rows[i][2].s = T1015 => v.hundredths = 101
                 /\ inDf.rows[i][2].s = T35 => v.hundredths = 4

\* "12,345" and "2,675" were converted in one call: one tie went down and
\* the other up
C5_Witness ==
    /\ TrDone /\ outTransform.ok
    /\ Len(inDf.rows) = 2
    /\ inDf.rows[1][2].s = T12345 /\ inDf.rows[2][2].s = T2675
    /\ outTransform.ret.rows[1][2] = Float(1234)
    /\ outTransform.ret.rows[2][2] = Float(268)

\* C6 as stated: after transform returns, the frame passed to it is as it
\* was.
C6_Original ==
    (TrDone /\ outTransform.ok) => outTransform.arg = inDf

\* C6 amended: transform assigns the converted numbers to the column
\* GDP_USD_millions of the frame passed to it: after a successful call
\* that frame keeps its column names and countries but holds the numbers
\* of the returned frame in place of the strings; only the new name
\* GDP_USD_billions is on the returned frame alone.  A call that raises
\* leaves the frame as it was.
C6_Amended ==
    TrDone =>
        /\ outTransform.ok =>
             /\ outTransform.arg.columns = inDf.columns
             /\ outTransform.arg.columns # outTransform.ret.columns
             /\ Len(outTransform.arg.rows) = Len(inDf.rows)
             /\ \A i \in 1..Len(inDf.rows) :
                  /\ outTransform.arg.rows[i][1] = inDf.rows[i][1]
                  /\ outTransform.arg.rows[i][2] = outTransform.ret.rows[i][2]
                  /\ outTransform.arg.rows[i][2] # inDf.rows[i][2]
        /\ ~outTransform.ok => outTransform.arg = inDf

\* a frame with records was transformed and no longer holds its strings
C6_Witness ==
    /\ TrDone /\ outTransform.ok
    /\ Len(inDf.rows) = 2
    /\ outTransform.arg # inDf
    /\ outTransform.arg.rows[1][2].name = "#float"

\* C7: the value run_query returns to the script is the records of the
\* loaded Dataset with GDP_USD_billions >= 100.
C7_QueryReturnsRows ==
    pc \in {"complete", "done"} =>
        queryRet = [columns |-> df.columns,
                    rows |-> SelectSeq(df.rows,
                                LAMBDA r : r[2].hundredths >= 10000)]

ThisRun == SubSeq(log, logMark + 1, Len(log))

IsPrefix(a, b) == Len(a) <= Len(b) /\ a = SubSeq(b, 1, Len(a))

\* C8: in every run the stages are called once each in the order extract,
\* transform, CSV write, connect, database write, query; a stage that
\* raises is the last one called, the script has ended and this run's log
\* has no "Process Complete."; when extract or transform raised, neither
\* sink was called; "Process Complete." is logged only after all stages
\* were called and none raised.
C8_StagesInOrder ==
    /\ IsPrefix(trace, StageOrder)
    /\ pc = "crashed" <=> failedAt # ""
    /\ failedAt # "" =>
         /\ trace[Len(trace)] = failedAt
         /\ "Process Complete." \notin Range(ThisRun)
    /\ failedAt \in {"extract", "transform"} =>
         "csv" \notin Range(trace) /\ "db" \notin Range(trace)
    /\ "Process Complete." \in Range(ThisRun) =>
         trace = StageOrder /\ failedAt = "" /\ pc = "done"
    /\ pc = "done" => ThisRun[Len(ThisRun)] = "Process Complete."

\* transform raised in a run that followed a complete one: the sinks hold
\* what the earlier run wrote
C8_Witness ==
    /\ runs = 1 /\ pc = "crashed" /\ failedAt = "transform"
    /\ "Process Complete." \in Range(log)
    /\ csv # NoDf /\ db = csv

\* C9: once a run's database write has succeeded, the table holds exactly
\* the rows and columns of that run's Dataset, whatever it held before.
C9_TableReplaced ==
    pc \in {"query", "complete", "done"} =>
        /\ db = df
        /\ db.columns = <<"Country", "GDP_USD_billions">>

\* a later run wrote a Dataset over a table that held other rows
C9_Witness ==
    /\ pc = "query" /\ runs = 1
    /\ dbBefore.rows # <<>> /\ df.rows # <<>>
    /\ dbBefore # df /\ db = df
====
